---- MODULE Spec2Model ----
(***************************************************************************)
(* Model of src/main.py: page numbers for duplex printing.                 *)
(*                                                                         *)
(*   main                   -> MainStart, MainAfterNumbering, Uncaught     *)
(*   add_page_numbers       -> NumOpen, NumPage, NumSave                   *)
(*   create_print_safe_pdf  -> BakeProbe, BakeOpen, BakeBake, BakeSave     *)
(*   default_*_output_path  -> operators of the same names                 *)
(*                                                                         *)
(* Strings are sequences of one-character strings, so that lower(),        *)
(* endswith() and slicing are computed and not assumed.  Lengths are in    *)
(* thousandths of a point (Pt(20) = 20 pt): the width of a Helvetica digit *)
(* at 11 pt is 6.116 pt, which is the integer 6116 in this unit.           *)
(***************************************************************************)
EXTENDS Integers, Sequences, FiniteSets, TLC

VARIABLES
    pc,                 \* position of the process
    args,               \* argparse namespace (main.py:175)
    hasBake,            \* hasattr(fitz.Document, "bake") of the installed engine
    fs,                 \* file system: file -> [valid, pages]
    input_path,         \* main.py:177 / parameter of add_page_numbers
    output_path,        \* main.py:178 / parameter of add_page_numbers
    start_page_number,  \* parameter of add_page_numbers
    print_safe_output,  \* main.py:193 / output_pdf of create_print_safe_pdf
    doc,                \* the document object held by the running pass
    page_num,           \* loop counter of main.py:57
    out,                \* the per-page console lines of main.py:114
    io,                 \* engine calls made so far: open / bake / save
    error,              \* the exception raised ("none" if none): SystemExit of
                        \* sys.exit, UnsupportedEngineError for the RuntimeError
                        \* of main.py:129, DocumentOpenError / DocumentWriteError
                        \* for what fitz.open / doc.save raise
    exit_code,          \* the process exit code, meaningful when pc = "exit"
    src_doc             \* history: the pages as fitz.open returned them

vars == <<pc, args, hasBake, fs, input_path, output_path, start_page_number,
          print_safe_output, doc, page_num, out, io, error, exit_code, src_doc>>

----------------------------------------------------------------------------
(* Bounds of the model.                                                    *)

MaxPages == 2       \* pages per document: 0 .. MaxPages
MaxStart == 3       \* --start-page-number ranges over MinStart .. MaxStart
MaxLen == 5         \* longest path string given to the path helpers

----------------------------------------------------------------------------
(* Strings.                                                                *)

None == <<"None">>    \* Python's None where a str is optional

S_pdf == <<".", "p", "d", "f">>
S_nummeriert == <<"_", "n", "u", "m", "m", "e", "r", "i", "e", "r", "t", ".", "p", "d", "f">>
S_drucksicher == <<"_", "d", "r", "u", "c", "k", "s", "i", "c", "h", "e", "r", ".", "p", "d", "f">>

P_a == <<"a", ".", "p", "d", "f">>                 \* a.pdf
P_dot_a == <<".", "/", "a", ".", "p", "d", "f">>   \* ./a.pdf: the same file as a.pdf
P_b == <<"b">>                                     \* b (no suffix)
P_o == <<"o", ".", "p", "d", "f">>                 \* o.pdf
P_p == <<"p", ".", "p", "d", "f">>                 \* p.pdf

\* str.lower() on one character of the alphabet used here.
LowerChar(c) ==
    CASE c = "A" -> "a"
      [] c = "P" -> "p"
      [] c = "D" -> "d"
      [] c = "F" -> "f"
      [] OTHER -> c

\* str.lower()
Lower(s) == [i \in 1..Len(s) |-> LowerChar(s[i])]

\* str.endswith(suffix)
EndsWith(s, suffix) ==
    /\ Len(s) >= Len(suffix)
    /\ SubSeq(s, Len(s) - Len(suffix) + 1, Len(s)) = suffix

\* s[:-4]
DropLast4(s) == IF Len(s) >= 4 THEN SubSeq(s, 1, Len(s) - 4) ELSE <<>>

\* A faulty variant of HasPdfSuffix: the test without lower().
HasPdfSuffix_caseSensitive(s) == EndsWith(s, S_pdf)

\* main.py:25 and main.py:31: input_path.lower().endswith(".pdf")
HasPdfSuffix(s) == EndsWith(Lower(s), S_pdf)

\* main.py:24-27
default_numbered_output_path(p) ==
    IF HasPdfSuffix(p) THEN DropLast4(p) \o S_nummeriert ELSE p \o S_nummeriert

\* main.py:30-33
default_print_safe_output_path(p) ==
    IF HasPdfSuffix(p) THEN DropLast4(p) \o S_drucksicher ELSE p \o S_drucksicher

\* Python's  a or b  on an optional str: None and "" are falsy.
PyOr(a, b) == IF a = None \/ a = <<>> THEN b ELSE a

\* The file a path names: the operating system drops a leading "./".
FileOf(p) ==
    IF Len(p) >= 2 /\ p[1] = "." /\ p[2] = "/" THEN SubSeq(p, 3, Len(p)) ELSE p

----------------------------------------------------------------------------
(* Numbers, text and geometry of add_page_numbers.                         *)

Pt(n) == n * 1000

font_size == 11
margin_x == 20
margin_y == 25
PDF_ANNOT_IS_PRINT == 4
HelvDigitWidth == 556     \* advance of every digit of Helvetica, per 1000 em

DigitChar(d) == <<"0", "1", "2", "3", "4", "5", "6", "7", "8", "9">>[d + 1]

\* str(n) for n >= 0
RECURSIVE DecimalString(_)
DecimalString(n) ==
    IF n < 10 THEN <<DigitChar(n)>>
    ELSE DecimalString(n \div 10) \o <<DigitChar(n % 10)>>

\* fitz.get_text_length(text, fontname="helv", fontsize): the sum of the
\* glyph advances times the font size (main.py:72); the text is digits only.
get_text_length(text, fontsize) == Len(text) * HelvDigitWidth * fontsize

\* A faulty variant of DisplayNum: the start number ignored.
DisplayNum_fromOne(page_index, start) == page_index + 1

\* main.py:59
DisplayNum(page_index, start) == page_index + start

\* main.py:60
IsFront(display_num) == display_num % 2 = 1

\* A faulty variant of BoxWidth: a padding of 60 in place of 6.
BoxWidth_widePadding(text) == get_text_length(text, font_size) + Pt(60)

\* main.py:73
BoxWidth(text) == get_text_length(text, font_size) + Pt(6)

\* main.py:74
BoxHeight == Pt(font_size) + Pt(2)

\* A faulty variant of AnnotRect: the Back rectangle laid out for an A4 page.
AnnotRect_fixedWidth(is_front, page_width, box_width) ==
    IF is_front
    THEN <<Pt(margin_x), Pt(margin_y), Pt(margin_x) + box_width, Pt(margin_y) + BoxHeight>>
    ELSE <<Pt(595) - Pt(margin_x) - box_width, Pt(margin_y),
           Pt(595) - Pt(margin_x), Pt(margin_y) + BoxHeight>>

\* main.py:77-90: (x_left, y_top, x_right, y_bottom)
AnnotRect(is_front, page_width, box_width) ==
    IF is_front
    THEN <<Pt(margin_x), Pt(margin_y), Pt(margin_x) + box_width, Pt(margin_y) + BoxHeight>>
    ELSE <<page_width - Pt(margin_x) - box_width, Pt(margin_y),
           page_width - Pt(margin_x), Pt(margin_y) + BoxHeight>>

\* main.py:93-105: the FreeText annotation
FreeTextAnnot(rect, text) ==
    [type |-> "FreeText", rect |-> rect, text |-> text, flags |-> PDF_ANNOT_IS_PRINT]

\* main.py:108-112: the border rectangle annotation
RectAnnot(rect) ==
    [type |-> "Square", rect |-> rect, text |-> <<>>, flags |-> PDF_ANNOT_IS_PRINT]

\* A faulty variant of AddMarker: the page's annotations replaced, not appended to.
AddMarker_replace(page, rect, text) ==
    [page EXCEPT !.annots = <<FreeTextAnnot(rect, text), RectAnnot(rect)>>]

\* main.py:93-112: page.add_freetext_annot, then page.add_rect_annot
AddMarker(page, rect, text) ==
    [page EXCEPT !.annots = (@ \o <<FreeTextAnnot(rect, text)>>) \o <<RectAnnot(rect)>>]

\* main.py:58-112: the loop body on one page
NumberPage(page, page_index, start) ==
    LET display_num == DisplayNum(page_index, start)
        is_front == IsFront(display_num)
        text == DecimalString(display_num)
        box_width == BoxWidth(text)
    IN  AddMarker(page, AnnotRect(is_front, page.width, box_width), text)

\* main.py:114: the console line of one page
PageLine(page_index, start, total_pages) ==
    LET display_num == DisplayNum(page_index, start)
        is_front == IsFront(display_num)
    IN  [display_num |-> display_num,
         total_pages |-> total_pages,
         side |-> IF is_front THEN "Vorderseite" ELSE "Rueckseite",
         position |-> IF is_front THEN "links" ELSE "rechts"]

----------------------------------------------------------------------------
(* The document engine.                                                    *)

NoDoc == [open |-> FALSE, name |-> None, pages |-> <<>>]
Garbage == [valid |-> FALSE, pages |-> <<>>]

\* fitz.open(path) succeeds on a file that exists and is a document.
CanOpen(path) == FileOf(path) \in DOMAIN fs /\ fs[FileOf(path)].valid

\* doc.save(path) is refused by the engine when path is the string the
\* document was opened with ("save to original must be incremental") or the
\* document has no page; otherwise it fails only on an unwritable path.
SaveRefused(d, path) == path = d.name \/ Len(d.pages) = 0

\* The file system after doc.save(path) wrote the document.
Written(d, path) ==
    [f \in DOMAIN fs \cup {FileOf(path)} |->
        IF f = FileOf(path) THEN [valid |-> TRUE, pages |-> d.pages] ELSE fs[f]]

IsWidget(a) == a.type = "Widget"
NotWidget(a) == a.type # "Widget"

\* doc.bake(annots=True, widgets=False) on one page (main.py:136)
BakePage(page) ==
    [page EXCEPT !.content = @ \o SelectSeq(page.annots, NotWidget),
                 !.annots = SelectSeq(page.annots, IsWidget)]

Event(op, path, ok) == [op |-> op, path |-> path, ok |-> ok]

----------------------------------------------------------------------------
(* Inputs.                                                                 *)

MinStart == 0 - 1

PreAnnot(t) == [type |-> t, rect |-> <<0, 0, 0, 0>>, text |-> <<>>, flags |-> 0]

\* Page widths: 30 pt (narrower than the two margins), 52.116 pt (exactly the
\* two margins and a one-digit box), 595 pt (A4).
PageWidths == {Pt(30), Pt(52) + 116, Pt(595)}

PreMarkups == {<<>>, <<PreAnnot("Ink")>>, <<PreAnnot("Widget"), PreAnnot("Ink")>>}

PagesOf(widths, markups) ==
    [width : widths, annots : markups, content : {<<>>}]

DocsOf(widths, markups) ==
    UNION {[1..n -> PagesOf(widths, markups)] : n \in 0..MaxPages}

\* Documents of the numbering pass on its own, and of a whole run of main.
NumDocs == DocsOf(PageWidths, PreMarkups)
MainDocs == DocsOf({Pt(595)}, {<<PreAnnot("Widget"), PreAnnot("Ink")>>})

EmptyFS == [f \in {} |-> Garbage]
OneFile(path, content) == [f \in {FileOf(path)} |-> content]

\* The input file is absent, is not a document, or is a document.
InputFS(path, docs) ==
    {EmptyFS, OneFile(path, Garbage)}
        \cup {OneFile(path, [valid |-> TRUE, pages |-> d]) : d \in docs}

\* Start numbers of the numbering pass on its own: its caller passes >= 1.
NumStarts == (1..MaxStart) \cup {9, 10, 99}

ArgSpace ==
    [input_pdf : {P_a, P_b},
     output_pdf : {None, <<>>, P_a, P_dot_a, P_o},
     start_page_number : MinStart..MaxStart,
     no_print_safe : BOOLEAN,
     print_safe_output : {None, P_o, P_p, default_numbered_output_path(P_a)}]

NoArgs ==
    [input_pdf |-> None, output_pdf |-> None, start_page_number |-> 1,
     no_print_safe |-> FALSE, print_safe_output |-> None]

----------------------------------------------------------------------------
(* main                                                                    *)

\* A faulty variant of StartInvalid: zero accepted.
StartInvalid_negative(n) == n < 0

\* main.py:180
StartInvalid(n) == n < 1

\* A faulty variant of SkipPrintSafe: the flag ignored.
SkipPrintSafe_never(a) == FALSE

\* main.py:190
SkipPrintSafe(a) == a.no_print_safe

\* main.py:196
PathsCollide(ps, o) == ps = o

\* main.py:177-188: the paths, the start number check, the call of
\* add_page_numbers.
MainStart ==
    /\ pc = "main"
    /\ input_path' = args.input_pdf
    /\ output_path' = PyOr(args.output_pdf, default_numbered_output_path(args.input_pdf))
    /\ IF StartInvalid(args.start_page_number)
       THEN /\ pc' = "exit"
            /\ exit_code' = 1
            /\ error' = "SystemExit"
            /\ UNCHANGED start_page_number
       ELSE /\ pc' = "number_open"
            /\ start_page_number' = args.start_page_number
            /\ UNCHANGED <<exit_code, error>>
    /\ UNCHANGED <<args, hasBake, fs, print_safe_output, doc, page_num, out, io, src_doc>>

\* main.py:190-200: after add_page_numbers returned.
MainAfterNumbering ==
    /\ pc = "number_return"
    /\ IF SkipPrintSafe(args)
       THEN /\ pc' = "exit"
            /\ exit_code' = 0
            /\ UNCHANGED <<print_safe_output, error>>
       ELSE /\ print_safe_output' =
                  PyOr(args.print_safe_output, default_print_safe_output_path(output_path))
            /\ IF PathsCollide(print_safe_output', output_path)
               THEN /\ pc' = "exit"
                    /\ exit_code' = 1
                    /\ error' = "SystemExit"
               ELSE /\ pc' = "bake_probe"
                    /\ UNCHANGED <<exit_code, error>>
    /\ UNCHANGED <<args, hasBake, fs, input_path, output_path, start_page_number,
                   doc, page_num, out, io, src_doc>>

\* main.py:200-204: create_print_safe_pdf returned, main returns.
MainReturn ==
    /\ pc = "bake_return"
    /\ pc' = "exit"
    /\ exit_code' = 0
    /\ UNCHANGED <<args, hasBake, fs, input_path, output_path, start_page_number,
                   print_safe_output, doc, page_num, out, io, error, src_doc>>

\* An exception nothing catches ends the interpreter with exit code 1.
Uncaught ==
    /\ pc = "raise"
    /\ pc' = "exit"
    /\ exit_code' = 1
    /\ UNCHANGED <<args, hasBake, fs, input_path, output_path, start_page_number,
                   print_safe_output, doc, page_num, out, io, error, src_doc>>

----------------------------------------------------------------------------
(* add_page_numbers                                                        *)

\* main.py:46-47: doc = fitz.open(input_path)
NumOpen ==
    /\ pc = "number_open"
    /\ io' = Append(io, Event("open", input_path, CanOpen(input_path)))
    /\ IF CanOpen(input_path)
       THEN /\ doc' = [open |-> TRUE, name |-> input_path,
                       pages |-> fs[FileOf(input_path)].pages]
            /\ src_doc' = doc'
            /\ page_num' = 0
            /\ pc' = "number_loop"
            /\ UNCHANGED error
       ELSE /\ error' = "DocumentOpenError"
            /\ pc' = "raise"
            /\ UNCHANGED <<doc, src_doc, page_num>>
    /\ UNCHANGED <<args, hasBake, fs, input_path, output_path, start_page_number,
                   print_safe_output, out, exit_code>>

\* main.py:57-114: one iteration of the loop.
NumPage ==
    /\ pc = "number_loop"
    /\ page_num < Len(doc.pages)
    /\ doc' = [doc EXCEPT !.pages[page_num + 1] =
                  NumberPage(@, page_num, start_page_number)]
    /\ out' = Append(out, PageLine(page_num, start_page_number, Len(doc.pages)))
    /\ page_num' = page_num + 1
    /\ UNCHANGED <<pc, args, hasBake, fs, input_path, output_path, start_page_number,
                   print_safe_output, io, error, exit_code, src_doc>>

\* main.py:116-121: doc.save(output_path, ...); doc.close()
NumSave ==
    /\ pc = "number_loop"
    /\ page_num = Len(doc.pages)
    /\ \E writable \in BOOLEAN :
          LET ok == writable /\ ~SaveRefused(doc, output_path) IN
          /\ io' = Append(io, Event("save", output_path, ok))
          /\ IF ok
             THEN /\ fs' = Written(doc, output_path)
                  /\ doc' = [doc EXCEPT !.open = FALSE]
                  /\ pc' = "number_return"
                  /\ UNCHANGED error
             ELSE /\ error' = "DocumentWriteError"
                  /\ pc' = "raise"
                  /\ UNCHANGED <<fs, doc>>
    /\ UNCHANGED <<args, hasBake, input_path, output_path, start_page_number,
                   print_safe_output, page_num, out, exit_code, src_doc>>

----------------------------------------------------------------------------
(* create_print_safe_pdf(source_pdf = output_path,                          *)
(*                       output_pdf = print_safe_output)                    *)

\* A faulty variant of BakeSupported: no probe.
BakeSupported_unprobed(has) == TRUE

\* main.py:128: hasattr(fitz.Document, "bake")
BakeSupported(has) == has

\* main.py:128-131
BakeProbe ==
    /\ pc = "bake_probe"
    /\ IF BakeSupported(hasBake)
       THEN pc' = "bake_open" /\ UNCHANGED error
       ELSE pc' = "raise" /\ error' = "UnsupportedEngineError"
    /\ UNCHANGED <<args, hasBake, fs, input_path, output_path, start_page_number,
                   print_safe_output, doc, page_num, out, io, exit_code, src_doc>>

\* main.py:133-134: doc = fitz.open(source_pdf)
BakeOpen ==
    /\ pc = "bake_open"
    /\ io' = Append(io, Event("open", output_path, CanOpen(output_path)))
    /\ IF CanOpen(output_path)
       THEN /\ doc' = [open |-> TRUE, name |-> output_path,
                       pages |-> fs[FileOf(output_path)].pages]
            /\ pc' = "bake_bake"
            /\ UNCHANGED error
       ELSE /\ error' = "DocumentOpenError"
            /\ pc' = "raise"
            /\ UNCHANGED doc
    /\ UNCHANGED <<args, hasBake, fs, input_path, output_path, start_page_number,
                   print_safe_output, page_num, out, exit_code, src_doc>>

\* main.py:136: doc.bake(annots=True, widgets=False); an engine without
\* bake raises AttributeError, and the finally clause closes the document.
BakeBake ==
    /\ pc = "bake_bake"
    /\ io' = Append(io, Event("bake", output_path, hasBake))
    /\ IF hasBake
       THEN /\ doc' = [doc EXCEPT !.pages = [i \in 1..Len(doc.pages) |-> BakePage(doc.pages[i])]]
            /\ pc' = "bake_save"
            /\ UNCHANGED error
       ELSE /\ doc' = [doc EXCEPT !.open = FALSE]
            /\ error' = "AttributeError"
            /\ pc' = "raise"
    /\ UNCHANGED <<args, hasBake, fs, input_path, output_path, start_page_number,
                   print_safe_output, page_num, out, exit_code, src_doc>>

\* main.py:137-140: doc.save(output_pdf, ...); finally doc.close()
BakeSave ==
    /\ pc = "bake_save"
    /\ \E writable \in BOOLEAN :
          LET ok == writable /\ ~SaveRefused(doc, print_safe_output) IN
          /\ io' = Append(io, Event("save", print_safe_output, ok))
          /\ doc' = [doc EXCEPT !.open = FALSE]
          /\ IF ok
             THEN /\ fs' = Written(doc, print_safe_output)
                  /\ pc' = "bake_return"
                  /\ UNCHANGED error
             ELSE /\ error' = "DocumentWriteError"
                  /\ pc' = "raise"
                  /\ UNCHANGED fs
    /\ UNCHANGED <<args, hasBake, input_path, output_path, start_page_number,
                   print_safe_output, page_num, out, exit_code, src_doc>>

----------------------------------------------------------------------------
(* Specifications.                                                         *)

\* A whole run of main.
Init ==
    /\ pc = "main"
    /\ args \in ArgSpace
    /\ hasBake \in BOOLEAN
    /\ fs \in InputFS(args.input_pdf, MainDocs)
    /\ input_path = None
    /\ output_path = None
    /\ start_page_number = 1
    /\ print_safe_output = None
    /\ doc = NoDoc
    /\ page_num = 0
    /\ out = <<>>
    /\ io = <<>>
    /\ error = "none"
    /\ exit_code = 0
    /\ src_doc = NoDoc

Next ==
    \/ MainStart
    \/ NumOpen
    \/ NumPage
    \/ NumSave
    \/ MainAfterNumbering
    \/ BakeProbe
    \/ BakeOpen
    \/ BakeBake
    \/ BakeSave
    \/ MainReturn
    \/ Uncaught

Spec == Init /\ [][Next]_vars

\* add_page_numbers on its own, called with a start number >= 1.
NumPaths ==
    {<<P_a, default_numbered_output_path(P_a)>>, <<P_a, P_o>>, <<P_a, P_a>>,
     <<P_a, P_dot_a>>}

InitNum ==
    /\ pc = "number_open"
    /\ args = NoArgs
    /\ hasBake = TRUE
    /\ \E io_paths \in NumPaths :
          /\ input_path = io_paths[1]
          /\ output_path = io_paths[2]
    /\ fs \in InputFS(input_path, NumDocs)
    /\ start_page_number \in NumStarts
    /\ print_safe_output = None
    /\ doc = NoDoc
    /\ page_num = 0
    /\ out = <<>>
    /\ io = <<>>
    /\ error = "none"
    /\ exit_code = 0
    /\ src_doc = NoDoc

NextNum ==
    \/ NumOpen
    \/ NumPage
    \/ NumSave

SpecNum == InitNum /\ [][NextNum]_vars

\* create_print_safe_pdf on its own.
BakeDocs == DocsOf({Pt(595)}, PreMarkups)

NumberedDocs ==
    {[i \in 1..Len(d) |-> NumberPage(d[i], i - 1, s)] : d \in BakeDocs, s \in 1..MaxStart}

InitBake ==
    /\ pc = "bake_probe"
    /\ args = NoArgs
    /\ hasBake \in BOOLEAN
    /\ input_path = P_a
    /\ output_path = P_o
    /\ fs \in InputFS(output_path, NumberedDocs)
    /\ start_page_number = 1
    /\ print_safe_output \in {P_p, P_o, <<".", "/">> \o P_o}
    /\ doc = NoDoc
    /\ page_num = 0
    /\ out = <<>>
    /\ io = <<>>
    /\ error = "none"
    /\ exit_code = 0
    /\ src_doc = NoDoc

NextBake ==
    \/ BakeProbe
    \/ BakeOpen
    \/ BakeBake
    \/ BakeSave

SpecBake == InitBake /\ [][NextBake]_vars

\* The path helpers on their own, applied to every short string.
Alphabet == {"a", ".", "p", "d", "f", "P", "F"}

Strings == UNION {[1..n -> Alphabet] : n \in 0..MaxLen}

InitPath ==
    /\ pc = "path"
    /\ args = NoArgs
    /\ hasBake = TRUE
    /\ fs = EmptyFS
    /\ input_path \in Strings
    /\ output_path = None
    /\ start_page_number = 1
    /\ print_safe_output = None
    /\ doc = NoDoc
    /\ page_num = 0
    /\ out = <<>>
    /\ io = <<>>
    /\ error = "none"
    /\ exit_code = 0
    /\ src_doc = NoDoc

\* output_path = default_numbered_output_path(input_path)
PathNumbered ==
    /\ pc = "path"
    /\ output_path = None
    /\ output_path' = default_numbered_output_path(input_path)
    /\ UNCHANGED <<pc, args, hasBake, fs, input_path, start_page_number,
                   print_safe_output, doc, page_num, out, io, error, exit_code, src_doc>>

\* print_safe_output = default_print_safe_output_path(input_path)
PathPrintSafe ==
    /\ pc = "path"
    /\ print_safe_output = None
    /\ print_safe_output' = default_print_safe_output_path(input_path)
    /\ UNCHANGED <<pc, args, hasBake, fs, input_path, output_path, start_page_number,
                   doc, page_num, out, io, error, exit_code, src_doc>>

NextPath ==
    \/ PathNumbered
    \/ PathPrintSafe

SpecPath == InitPath /\ [][NextPath]_vars

----------------------------------------------------------------------------
(* Properties.                                                             *)

\* The engine calls that wrote a file.
Saved == {i \in 1..Len(io) : io[i].op = "save" /\ io[i].ok}

\* The FreeText annotation and the border annotation of numbered page k.
MarkerText(k) == doc.pages[k].annots[Len(doc.pages[k].annots) - 1]
MarkerBorder(k) == doc.pages[k].annots[Len(doc.pages[k].annots)]
LineIsFront(k) == out[k].side = "Vorderseite"

\* The paths main computes from the arguments.
NumberedPathOf(a) == PyOr(a.output_pdf, default_numbered_output_path(a.input_pdf))
PrintSafePathOf(a) ==
    PyOr(a.print_safe_output, default_print_safe_output_path(NumberedPathOf(a)))

\* C1 (as claimed): when the print-safe output path equals the numbered
\* output path, the run ends with exit code 1 and no save, neither of the
\* numbering pass nor of the bake pass, has written a file.
C1_CollisionWritesNothing ==
    PrintSafePathOf(args) = NumberedPathOf(args) =>
        /\ Saved = {}
        /\ pc = "exit" => exit_code = 1

\* C2: page index i gets display number i + start, is Front (left) iff that
\* number is odd, the numbers rise by exactly 1 from page to page, so the side
\* alternates, and start 2 gives every page the other side than start 1.
C2_DisplayNumberAndSide ==
    \A k \in 1..Len(out) :
        /\ out[k].display_num = (k - 1) + start_page_number
        /\ LineIsFront(k) <=> out[k].display_num % 2 = 1
        /\ out[k].side \in {"Vorderseite", "Rueckseite"}
        /\ out[k].position = (IF out[k].display_num % 2 = 1 THEN "links" ELSE "rechts")
        /\ MarkerText(k).text = DecimalString((k - 1) + start_page_number)
        /\ k > 1 => /\ out[k].display_num = out[k - 1].display_num + 1
                    /\ out[k].side # out[k - 1].side
        /\ IsFront(DisplayNum(k - 1, 1)) # IsFront(DisplayNum(k - 1, 2))

C2_Witness ==
    /\ Len(out) >= 2
    /\ start_page_number = 2
    /\ out[1].side = "Rueckseite"
    /\ out[2].side = "Vorderseite"

\* C3: the rectangle of every numbered page is textWidth + 6 wide and 13 high
\* with yTop = 25; Front: xLeft = 20, xRight = 20 + boxWidth; Back: xRight =
\* pageWidth - 20, xLeft = xRight - boxWidth, pageWidth that of the same page.
C3_RectangleGeometry ==
    \A k \in 1..Len(out) :
        LET r == MarkerText(k).rect
            boxWidth == get_text_length(DecimalString(out[k].display_num), 11) + Pt(6)
            pageWidth == src_doc.pages[k].width
        IN  /\ r[3] - r[1] = boxWidth
            /\ r[4] - r[2] = Pt(13)
            /\ r[2] = Pt(25)
            /\ LineIsFront(k) => r[1] = Pt(20) /\ r[3] = Pt(20) + boxWidth
            /\ ~LineIsFront(k) => r[3] = pageWidth - Pt(20) /\ r[1] = r[3] - boxWidth
            /\ MarkerBorder(k).rect = r

C3_Witness ==
    \E k \in 1..Len(out) :
        /\ ~LineIsFront(k)
        /\ out[k].display_num >= 10
        /\ src_doc.pages[k].width = Pt(30)

\* C4: a numbered page keeps its markup, unchanged and in order, followed by
\* exactly one Marker (the text annotation, then the border annotation at the
\* same rectangle, both printable); a page not yet numbered is untouched; the
\* file a successful pass wrote has the pages of the input, each with its
\* markup and its one Marker.
C4_AppendOneMarker ==
    /\ src_doc.open =>
          /\ Len(doc.pages) = Len(src_doc.pages)
          /\ \A k \in 1..Len(doc.pages) :
                LET old == src_doc.pages[k]
                    new == doc.pages[k]
                IN  /\ new.width = old.width
                    /\ new.content = old.content
                    /\ k > page_num => new = old
                    /\ k <= page_num =>
                          /\ Len(new.annots) = Len(old.annots) + 2
                          /\ SubSeq(new.annots, 1, Len(old.annots)) = old.annots
                          /\ MarkerText(k).type = "FreeText"
                          /\ MarkerBorder(k).type = "Square"
                          /\ MarkerBorder(k).rect = MarkerText(k).rect
                          /\ MarkerText(k).flags = PDF_ANNOT_IS_PRINT
                          /\ MarkerBorder(k).flags = PDF_ANNOT_IS_PRINT
    /\ pc = "number_return" =>
          /\ page_num = Len(src_doc.pages)
          /\ fs[FileOf(output_path)].valid
          /\ fs[FileOf(output_path)].pages = doc.pages

C4_Witness ==
    /\ pc = "number_return"
    /\ Len(src_doc.pages) = 2
    /\ Len(src_doc.pages[1].annots) = 2
    /\ Len(fs[FileOf(output_path)].pages[1].annots) = 4

\* C5: with --start-page-number < 1 the run ends at once with a non-zero exit
\* code: no document is opened, no file is written, nothing else runs.
C5_BadStartNoFileAccess ==
    args.start_page_number < 1 =>
        /\ pc \in {"main", "exit"}
        /\ io = <<>>
        /\ ~doc.open
        /\ DOMAIN fs \subseteq {FileOf(args.input_pdf)}
        /\ pc = "exit" => exit_code # 0

C5_Witness ==
    /\ args.start_page_number = 0
    /\ pc = "exit"
    /\ exit_code = 1
    /\ CanOpen(args.input_pdf)

\* C6: with --no-print-safe and a valid start number the bake pass never
\* runs: the engine is asked to open the input and to save the numbered output
\* and nothing else, no other file appears, and the run ends with exit code 0
\* once the numbering pass has saved.
C6_NoPrintSafeSkipsBake ==
    args.no_print_safe /\ args.start_page_number >= 1 =>
        /\ pc \notin {"bake_probe", "bake_open", "bake_bake", "bake_save", "bake_return"}
        /\ print_safe_output = None
        /\ Len(io) <= 2
        /\ \A i \in 1..Len(io) :
              /\ io[i].op # "bake"
              /\ io[i].op = "open" => i = 1 /\ io[i].path = args.input_pdf
              /\ io[i].op = "save" => i = 2 /\ io[i].path = NumberedPathOf(args)
        /\ DOMAIN fs \subseteq {FileOf(args.input_pdf), FileOf(NumberedPathOf(args))}
        /\ pc = "exit" /\ Saved # {} => exit_code = 0
        /\ pc = "exit" /\ exit_code = 0 => Saved # {}

C6_Witness ==
    /\ args.no_print_safe
    /\ args.print_safe_output = P_p
    /\ pc = "exit"
    /\ exit_code = 0
    /\ Saved # {}

\* C7 (as claimed): whatever the input and output paths, the numbering pass
\* leaves the input file as it was opened and writes no file but the one the
\* output path names.
C7_InputNeverMutated ==
    src_doc.open =>
        /\ fs[FileOf(input_path)].pages = src_doc.pages
        /\ DOMAIN fs \subseteq {FileOf(input_path), FileOf(output_path)}

\* C8: on an engine without bake, create_print_safe_pdf raises the
\* unsupported-engine error before it opens the numbered document: no open, no
\* bake, no save; and that error is raised in no other case, a failed open or
\* a failed save raising its own.
C8_UnsupportedEngineFirst ==
    /\ ~hasBake =>
          /\ pc \in {"bake_probe", "raise"}
          /\ io = <<>>
          /\ ~doc.open
          /\ DOMAIN fs \subseteq {FileOf(output_path)}
          /\ pc = "raise" => error = "UnsupportedEngineError"
    /\ error = "UnsupportedEngineError" => ~hasBake /\ io = <<>>
    /\ \A i \in 1..Len(io) :
          ~io[i].ok /\ pc = "raise" =>
              error = (IF io[i].op = "open" THEN "DocumentOpenError" ELSE "DocumentWriteError")

C8_Witness ==
    /\ ~hasBake
    /\ pc = "raise"
    /\ error = "UnsupportedEngineError"
    /\ CanOpen(output_path)
    /\ Len(fs[FileOf(output_path)].pages) > 0

\* The path with a trailing ".pdf" removed, in any letter case / as written.
StemAnyCase(p) ==
    IF Len(p) >= 4 /\ Lower(SubSeq(p, Len(p) - 3, Len(p))) = <<".", "p", "d", "f">>
    THEN SubSeq(p, 1, Len(p) - 4)
    ELSE p
StemExact(p) ==
    IF Len(p) >= 4 /\ SubSeq(p, Len(p) - 3, Len(p)) = <<".", "p", "d", "f">>
    THEN SubSeq(p, 1, Len(p) - 4)
    ELSE p

\* C9 (as claimed): defaultNumberedPath(p) is p without a trailing ".pdf"
\* followed by "_numbered.pdf", defaultPrintSafePath(q) the same with
\* "_printsafe.pdf"; neither does I/O.
C9_PathsAsClaimed ==
    /\ output_path # None =>
          output_path = StemExact(input_path) \o
              <<"_", "n", "u", "m", "b", "e", "r", "e", "d", ".", "p", "d", "f">>
    /\ print_safe_output # None =>
          print_safe_output = StemExact(input_path) \o
              <<"_", "p", "r", "i", "n", "t", "s", "a", "f", "e", ".", "p", "d", "f">>
    /\ io = <<>> /\ fs = EmptyFS

\* C9 (amended): defaultNumberedPath(p) is p without a trailing ".pdf" in any
\* letter case followed by "_nummeriert.pdf", defaultPrintSafePath(q) the same
\* with "_drucksicher.pdf"; neither does I/O.
C9_PathDerivation ==
    /\ output_path # None =>
          output_path = StemAnyCase(input_path) \o
              <<"_", "n", "u", "m", "m", "e", "r", "i", "e", "r", "t", ".", "p", "d", "f">>
    /\ print_safe_output # None =>
          print_safe_output = StemAnyCase(input_path) \o
              <<"_", "d", "r", "u", "c", "k", "s", "i", "c", "h", "e", "r", ".", "p", "d", "f">>
    /\ io = <<>> /\ fs = EmptyFS

C9_Witness ==
    /\ input_path = <<"a", ".", "P", "d", "F">>
    /\ output_path = <<"a", "_", "n", "u", "m", "m", "e", "r", "i", "e", "r", "t", ".", "p", "d", "f">>
    /\ print_safe_output # None

\* Page k's rectangle stays out of the opposite margin.
ClearOfOppositeMargin(k) ==
    LET r == MarkerText(k).rect
        pageWidth == src_doc.pages[k].width
    IN  /\ LineIsFront(k) => r[3] <= pageWidth - Pt(20)
        /\ ~LineIsFront(k) => r[1] >= Pt(20) /\ r[1] >= 0

\* C10 (as claimed): for every page width and display number the rectangle
\* stays out of the opposite margin: Front xRight <= pageWidth - 20, Back
\* xLeft >= 20 and so never negative.
C10_NeverOverlapsAsClaimed ==
    \A k \in 1..Len(out) : ClearOfOppositeMargin(k)

\* C10 (amended): the rectangle stays out of the opposite margin on every
\* page at least 2 * 20 + boxWidth wide, and on no narrower page.
C10_ClearIffWideEnough ==
    \A k \in 1..Len(out) :
        LET boxWidth == get_text_length(DecimalString(out[k].display_num), 11) + Pt(6)
        IN  src_doc.pages[k].width >= Pt(40) + boxWidth <=> ClearOfOppositeMargin(k)

C10_Witness ==
    \E k \in 1..Len(out) :
        /\ src_doc.pages[k].width = Pt(52) + 116
        /\ out[k].display_num < 10
        /\ ~LineIsFront(k)
        /\ MarkerText(k).rect[1] = Pt(20)

====
